---- MODULE Spec2Model ----
(***************************************************************************)
(* The GraphQL CRUD service around the single Prisma model User            *)
(* (id String @default(cuid()) @id, name String): the Query and Mutation   *)
(* root fields of graphql/schema.ts, the Prisma store they call through    *)
(* ctx.prisma.user, and the request cycle of the Apollo handler.           *)
(*                                                                         *)
(* Strings are sequences of character codes, so that ordering, case        *)
(* folding and substring tests are computed on the characters.             *)
(* An optional (Maybe) input is <<>> when absent and <<v>> when given.     *)
(***************************************************************************)
EXTENDS Integers, Sequences, FiniteSets, TLC

(* ---------------------------------------------------------------------- *)
(* Bounds of the model                                                     *)
(* ---------------------------------------------------------------------- *)
\* largest number of rows the User table holds in the model
MaxUsers == 2
\* number of ids the cuid() default hands out in the model
MaxCuid == 2
\* largest number of root fields in the document of one request
MaxFields == 2

(* ---------------------------------------------------------------------- *)
(* Strings                                                                 *)
(* ---------------------------------------------------------------------- *)
sAlice == <<65, 108, 105, 99, 101>>
sBob == <<98, 111, 98>>
sOne == <<49>>
sTwo == <<50>>
sLowerB == <<98>>
sUpperB == <<66>>
sLowerC == <<99>>
sCuid0 == <<99, 48>>

Null == <<>>
Some(v) == <<v>>
IsNull(m) == m = <<>>

LowerChar(c) == IF c \in 65..90 THEN c + 32 ELSE c
ToLower(s) == [i \in 1..Len(s) |-> LowerChar(s[i])]

\* lexicographic order on the character codes
StrLt(a, b) ==
  \E k \in 1..Len(b) :
    /\ k - 1 <= Len(a)
    /\ SubSeq(a, 1, k - 1) = SubSeq(b, 1, k - 1)
    /\ (k > Len(a) \/ a[k] < b[k])
StrLte(a, b) == a = b \/ StrLt(a, b)

StartsWith(s, p) == Len(p) <= Len(s) /\ SubSeq(s, 1, Len(p)) = p
EndsWith(s, p) == Len(p) <= Len(s) /\ SubSeq(s, Len(s) - Len(p) + 1, Len(s)) = p
Contains(s, p) ==
  \E i \in 0..(Len(s) - Len(p)) : SubSeq(s, i + 1, i + Len(p)) = p

\* `${count}`: the decimal digits of a non-negative integer
RECURSIVE Decimal(_)
Decimal(n) == IF n < 10 THEN <<48 + n>> ELSE Decimal(n \div 10) \o <<48 + (n % 10)>>

\* " user(s) destroyed. Thanos will be proud."
sDestroyed ==
  <<32, 117, 115, 101, 114, 40, 115, 41, 32, 100, 101, 115, 116, 114, 111,
    121, 101, 100, 46, 32, 84, 104, 97, 110, 111, 115, 32, 119, 105, 108,
    108, 32, 98, 101, 32, 112, 114, 111, 117, 100, 46>>

(* ---------------------------------------------------------------------- *)
(* The User model and its inputs                                           *)
(* ---------------------------------------------------------------------- *)
\* a cuid() without its counter block: every call yields the same id
Cuid_noCounter(n) == <<99, 48>>

\* @default(cuid()): the n-th id the store generates; successive calls
\* differ in their counter block
Cuid(n) == <<99, 48 + n>>

\* ids and names a client sends; a client id may have the shape of a cuid
IdPool == {sOne, sTwo, sCuid0}
NamePool == {sAlice, sBob}

User(i, n) == [id |-> i, name |-> n]

\* UserWhereUniqueInput {id?}
WhereUnique(i) == [id |-> i]
WhereUniqueInputs == {WhereUnique(Null)} \cup {WhereUnique(Some(i)) : i \in IdPool}

\* UserCreateInput {id?, name}
UserCreateInputs ==
  {[id |-> i, name |-> n] : i \in {Null} \cup {Some(x) : x \in IdPool}, n \in NamePool}

\* StringFieldUpdateOperationsInput {set?}; UserUpdateInput {id?, name?}
UserUpdateInputs ==
  {[id |-> i, name |-> n] :
     i \in {Null} \cup {Some([set |-> x]) : x \in {sOne, sTwo}},
     n \in {Null} \cup {Some([set |-> x]) : x \in {sBob}}}

\* StringFieldUpdateOperationsInput {set: null}: set is declared nullable
SetNull == [set |-> Null, null |-> TRUE]

\* QueryUsersArgs {first?, last?, before?, after?}
Page(f, l, b, a) == [first |-> f, last |-> l, before |-> b, after |-> a]
PageInputs ==
  {Page(f, l, b, a) :
     f \in {Null, Some(1), Some(2)},
     l \in {Null, Some(1)},
     b \in {Null, Some(WhereUnique(Some(sCuid0)))},
     a \in {Null, Some(WhereUnique(Some(sOne))), Some(WhereUnique(Null))}}

\* StringFilter / NestedStringFilter with no predicate given
NoStringFilter ==
  [equals |-> Null, in |-> Null, notIn |-> Null, lt |-> Null, lte |-> Null,
   gt |-> Null, gte |-> Null, contains |-> Null, startsWith |-> Null,
   endsWith |-> Null, mode |-> Null, not |-> Null]

\* UserWhereInput with no condition given
NoWhere == [AND |-> Null, OR |-> Null, NOT |-> Null, id |-> Null, name |-> Null]

(* ---------------------------------------------------------------------- *)
(* Filters                                                                 *)
(* ---------------------------------------------------------------------- *)
\* the value a predicate is compared on, under QueryMode default / insensitive
Fold(s, mode) == IF mode = Some("insensitive") THEN ToLower(s) ELSE s

\* one StringFilter / NestedStringFilter on one string value: all the
\* predicates given are ANDed; `not` negates the nested filter
RECURSIVE MatchString(_, _, _)
MatchString(f, v, mode) ==
  LET x == Fold(v, mode)
      F(s) == Fold(s, mode)
  IN /\ IsNull(f.equals) \/ x = F(f.equals[1])
     /\ IsNull(f.in) \/ \E s \in f.in[1] : x = F(s)
     /\ IsNull(f.notIn) \/ \A s \in f.notIn[1] : x # F(s)
     /\ IsNull(f.lt) \/ StrLt(x, F(f.lt[1]))
     /\ IsNull(f.lte) \/ StrLte(x, F(f.lte[1]))
     /\ IsNull(f.gt) \/ StrLt(F(f.gt[1]), x)
     /\ IsNull(f.gte) \/ StrLte(F(f.gte[1]), x)
     /\ IsNull(f.contains) \/ Contains(x, F(f.contains[1]))
     /\ IsNull(f.startsWith) \/ StartsWith(x, F(f.startsWith[1]))
     /\ IsNull(f.endsWith) \/ EndsWith(x, F(f.endsWith[1]))
     /\ IsNull(f.not) \/ ~MatchString(f.not[1], v, mode)

\* a field condition of UserWhereInput; an absent one holds
MatchField(mf, v) == IsNull(mf) \/ MatchString(mf[1], v, mf[1].mode)

\* UserWhereInput: the fields and AND / OR / NOT are ANDed together
RECURSIVE Matches(_, _)
Matches(w, u) ==
  /\ MatchField(w.id, u.id)
  /\ MatchField(w.name, u.name)
  /\ IsNull(w.AND) \/ \A k \in 1..Len(w.AND[1]) : Matches(w.AND[1][k], u)
  /\ IsNull(w.OR) \/ \E k \in 1..Len(w.OR[1]) : Matches(w.OR[1][k], u)
  /\ IsNull(w.NOT) \/ \A k \in 1..Len(w.NOT[1]) : ~Matches(w.NOT[1][k], u)

\* an absent filter taken to select no row
MatchesMaybe_absentSelectsNone(mw, u) == ~IsNull(mw) /\ Matches(mw[1], u)

\* where?: Maybe<UserWhereInput>; an absent filter selects every row
MatchesMaybe(mw, u) == IsNull(mw) \/ Matches(mw[1], u)

\* the filters the model sends: every predicate of StringFilter occurs
IdStringFilters ==
  {[NoStringFilter EXCEPT !.equals = Some(sOne)],
   [NoStringFilter EXCEPT !.in = Some({sOne, sCuid0})],
   [NoStringFilter EXCEPT !.notIn = Some({sTwo})],
   [NoStringFilter EXCEPT !.lt = Some(sTwo)],
   [NoStringFilter EXCEPT !.startsWith = Some(sLowerC)]}

NameStringFilters ==
  {[NoStringFilter EXCEPT !.equals = Some(sAlice)],
   [NoStringFilter EXCEPT !.gte = Some(sLowerB)],
   [NoStringFilter EXCEPT !.gt = Some(sAlice), !.mode = Some("insensitive")],
   [NoStringFilter EXCEPT !.contains = Some(sLowerB), !.mode = Some("insensitive")],
   [NoStringFilter EXCEPT !.contains = Some(sUpperB), !.mode = Some("default")],
   [NoStringFilter EXCEPT !.endsWith = Some(sLowerB), !.lte = Some(sLowerC)],
   [NoStringFilter EXCEPT !.not = Some([NoStringFilter EXCEPT !.equals = Some(sBob)])]}

FieldWheres ==
  {NoWhere}
    \cup {[NoWhere EXCEPT !.id = Some(f)] : f \in IdStringFilters}
    \cup {[NoWhere EXCEPT !.name = Some(f)] : f \in NameStringFilters}

wIdOne == [NoWhere EXCEPT !.id = Some([NoStringFilter EXCEPT !.equals = Some(sOne)])]
wNameBob == [NoWhere EXCEPT !.name = Some([NoStringFilter EXCEPT !.equals = Some(sBob)])]
wNameHasB ==
  [NoWhere EXCEPT !.name =
     Some([NoStringFilter EXCEPT !.contains = Some(sLowerB), !.mode = Some("insensitive")])]

WhereInputs ==
  FieldWheres
    \cup {[wIdOne EXCEPT !.name = wNameBob.name],
          [NoWhere EXCEPT !.AND = Some(<<wIdOne, wNameHasB>>)],
          [NoWhere EXCEPT !.AND = Some(<<>>)],
          [NoWhere EXCEPT !.OR = Some(<<wIdOne, wNameBob>>)],
          [NoWhere EXCEPT !.OR = Some(<<>>)],
          [NoWhere EXCEPT !.NOT = Some(<<wIdOne>>)],
          [NoWhere EXCEPT !.NOT = Some(<<wIdOne, wNameBob>>)],
          [wNameHasB EXCEPT !.NOT = Some(<<[NoWhere EXCEPT !.OR = Some(<<wIdOne>>)]>>)]}

MaybeWhereInputs == {Null} \cup {Some(w) : w \in WhereInputs}

(* ---------------------------------------------------------------------- *)
(* The Prisma store: ctx.prisma.user over the table of User rows           *)
(* ---------------------------------------------------------------------- *)
Ok(v) == [ok |-> TRUE, value |-> v]
Err(e) == [ok |-> FALSE, error |-> e]

\* the rows of tbl that satisfy P, in table order
Rows(tbl, P(_)) == SelectSeq(tbl, P)

\* the model without the primary key: an insert never finds its id taken
IdInUse_never(tbl, i) == FALSE

\* @id: the primary key is already held by a row of tbl
IdInUse(tbl, i) == \E k \in 1..Len(tbl) : tbl[k].id = i

\* the model without the primary key: nothing is checked
PrimaryKeyHolds_unenforced(tbl) == TRUE

\* @id: no two rows of tbl hold the same primary key
PrimaryKeyHolds(tbl) ==
  \A j, k \in 1..Len(tbl) : tbl[j].id = tbl[k].id => j = k

\* the two `set` operations written to each other's column
ApplyUpdate_swapped(u, data) ==
  [id |-> IF IsNull(data.name) THEN u.id ELSE data.name[1].set,
   name |-> IF IsNull(data.id) THEN u.name ELSE data.id[1].set]

\* a store that takes {set: null} for a value
SetsNull_never(data) == FALSE

\* the update input sets a field of User, both of them required, to null
SetsNull(data) ==
  \/ ~IsNull(data.id) /\ "null" \in DOMAIN data.id[1]
  \/ ~IsNull(data.name) /\ "null" \in DOMAIN data.name[1]

\* the `set` operations of an update input applied to one row
ApplyUpdate(u, data) ==
  [id |-> IF IsNull(data.id) THEN u.id ELSE data.id[1].set,
   name |-> IF IsNull(data.name) THEN u.name ELSE data.name[1].set]

\* Each store call yields [tbl: the table after the call, res: its result].

findMany(tbl, mw) ==
  LET P(u) == MatchesMaybe(mw, u) IN Rows(tbl, P)

findUnique(tbl, where) ==
  IF IsNull(where.id) THEN Err("ValidationError")
  ELSE LET P(u) == u.id = where.id[1]
           found == Rows(tbl, P)
       IN IF found = <<>> THEN Err("NotFound") ELSE Ok(found[1])

\* the rows of tbl in ascending order of their ids
SortById(tbl) ==
  [k \in 1..Len(tbl) |->
     CHOOSE u \in {tbl[j] : j \in 1..Len(tbl)} :
       Cardinality({j \in 1..Len(tbl) : StrLt(tbl[j].id, u.id)}) = k - 1]

\* the first n / the last n elements of s, all of s when it has fewer
Take(s, n) == SubSeq(s, 1, IF n < Len(s) THEN n ELSE Len(s))
TakeLast(s, n) == SubSeq(s, IF n < Len(s) THEN Len(s) - n + 1 ELSE 1, Len(s))

\* findMany({first, last, before, after}): the rows in id order, those
\* strictly between the cursors, cut to the first and then the last so many
findManyPaged(tbl, page) ==
  IF \/ ~IsNull(page.before) /\ IsNull(page.before[1].id)
     \/ ~IsNull(page.after) /\ IsNull(page.after[1].id)
  THEN Err("ValidationError")
  ELSE LET InWindow(u) ==
             /\ IsNull(page.after) \/ StrLt(page.after[1].id[1], u.id)
             /\ IsNull(page.before) \/ StrLt(u.id, page.before[1].id[1])
           window == SelectSeq(SortById(tbl), InWindow)
           head == IF IsNull(page.first) THEN window ELSE Take(window, page.first[1])
       IN Ok(IF IsNull(page.last) THEN head ELSE TakeLast(head, page.last[1]))

\* create({data}); seq is the number of ids cuid() has produced so far
create(tbl, data, seq) ==
  LET i == IF IsNull(data.id) THEN Cuid(seq) ELSE data.id[1]
      u == User(i, data.name)
  IN IF IdInUse(tbl, i)
     THEN [tbl |-> tbl, res |-> Err("ConflictError")]
     ELSE [tbl |-> Append(tbl, u), res |-> Ok(u)]

deleteOne(tbl, where) ==
  LET found == findUnique(tbl, where)
      P(u) == u.id # where.id[1]
  IN IF found.ok
     THEN [tbl |-> Rows(tbl, P), res |-> found]
     ELSE [tbl |-> tbl, res |-> found]

deleteMany(tbl, mw) ==
  LET P(u) == ~MatchesMaybe(mw, u)
      kept == Rows(tbl, P)
  IN [tbl |-> kept, res |-> Ok([count |-> Len(tbl) - Len(kept)])]

updateOne(tbl, data, where) ==
  LET found == findUnique(tbl, where)
      new == [k \in 1..Len(tbl) |->
                IF tbl[k].id = where.id[1] THEN ApplyUpdate(tbl[k], data) ELSE tbl[k]]
  IN IF SetsNull(data) THEN [tbl |-> tbl, res |-> Err("ValidationError")]
     ELSE IF ~found.ok THEN [tbl |-> tbl, res |-> found]
     ELSE IF ~PrimaryKeyHolds(new) THEN [tbl |-> tbl, res |-> Err("ConflictError")]
     ELSE [tbl |-> new, res |-> Ok(ApplyUpdate(found.value, data))]

updateMany(tbl, data, mw) ==
  LET hit == {k \in 1..Len(tbl) : MatchesMaybe(mw, tbl[k])}
      new == [k \in 1..Len(tbl) |->
                IF k \in hit THEN ApplyUpdate(tbl[k], data) ELSE tbl[k]]
  IN IF SetsNull(data) THEN [tbl |-> tbl, res |-> Err("ValidationError")]
     ELSE IF ~PrimaryKeyHolds(new) THEN [tbl |-> tbl, res |-> Err("ConflictError")]
     ELSE [tbl |-> new, res |-> Ok([count |-> Cardinality(hit)])]

(* ---------------------------------------------------------------------- *)
(* The endpoint: requests in flight against the shared store               *)
(* ---------------------------------------------------------------------- *)
Reqs == {"r1", "r2"}

QueryFields == {"allUsers", "user", "users"}
MutationFields ==
  {"bigRedButton", "createOneUser", "deleteOneUser", "deleteManyUser",
   "updateOneUser", "updateManyUser"}
Fields == QueryFields \cup MutationFields

\* only the query declared nullable: a mutation on a missing row errors
NullOnNotFound_queryOnly == {"user"}

\* only the mutations declared nullable: a lookup of a missing row errors
NullOnNotFound_mutationsOnly == {"deleteOneUser", "updateOneUser"}

\* root fields declared with a nullable type: an error in one of them
\* leaves the other root fields of the document their data
NullableFields == {"allUsers", "user", "bigRedButton", "deleteOneUser", "updateOneUser"}

\* the root fields that remove rows
DeleteFields == {"bigRedButton", "deleteOneUser", "deleteManyUser"}

\* root fields declared nullable: their NotFound becomes a null payload
NullOnNotFound == {"user", "deleteOneUser", "updateOneUser"}

NoRes == [ok |-> TRUE, value |-> Null]
NoResp == [data |-> Null, errors |-> <<>>]

\* the arguments of a root field: data and where, each given or not, and
\* for users its paging arguments
Args(d, w) == [data |-> d, where |-> w, page |-> Null]
PageArgs(p) == [data |-> Null, where |-> Null, page |-> Some(p)]
NoArgs == Args(Null, Null)

VARIABLES
  users,     \* the User table, rows [id, name] in table order
  cuidSeq,   \* how many ids cuid() has produced
  everUsed,  \* history: every id some row has held
  pc,        \* per request: "idle", "started", "resolved", "done"
  op,        \* per request: the root field it asks for
  arg,       \* per request: the arguments its resolver passed to the store
  res,       \* per request: what its store call returned
  took,      \* per request, history: the ids its store call deleted
  part,      \* per request: the root fields of its document resolved before
             \* the current one, each with what its store call returned
  resp,      \* per request: the response envelope {data, errors}
  quiet,     \* history: no other request called the store since it started
  result,    \* the page: what useAllUsersQuery returns, {data, fetching, error}
  view       \* the page: what the AllUsers component has rendered

vars ==
  <<users, cuidSeq, everUsed, pc, op, arg, res, took, part, resp, quiet,
    result, view>>

\* the page has not run its query
NoResult == [data |-> Null, fetching |-> FALSE, error |-> Null]
NoView == [kind |-> "none", message |-> Null, count |-> Null, items |-> <<>>]

Ids(tbl) == {tbl[k].id : k \in 1..Len(tbl)}

Init ==
  /\ users = <<>>
  /\ cuidSeq = 0
  /\ everUsed = {}
  /\ pc = [r \in Reqs |-> "idle"]
  /\ op = [r \in Reqs |-> "none"]
  /\ arg = [r \in Reqs |-> NoArgs]
  /\ res = [r \in Reqs |-> NoRes]
  /\ took = [r \in Reqs |-> {}]
  /\ part = [r \in Reqs |-> <<>>]
  /\ resp = [r \in Reqs |-> NoResp]
  /\ quiet = [r \in Reqs |-> FALSE]
  /\ result = NoResult
  /\ view = NoView

\* a request for root field f arrives and is dispatched to its resolver
Dispatch(r, f) ==
  /\ pc[r] = "idle"
  /\ pc' = [pc EXCEPT ![r] = "started"]
  /\ op' = [op EXCEPT ![r] = f]
  /\ quiet' = [quiet EXCEPT ![r] = TRUE]
  /\ UNCHANGED <<users, cuidSeq, everUsed, arg, res, took, part, resp>>

\* the request of a client other than the page
Start(r, f) == Dispatch(r, f) /\ UNCHANGED <<result, view>>

\* documents the schema does not accept: one that does not parse, one that
\* selects a root field the schema does not declare, and a createOneUser
\* whose data lacks the required name
BadDocuments == {"malformed", "unknownField", "createOneUserNoName"}

\* a handler that answers what it can of a document and drops the rest
\* silently
Refuse_lenient(r, d) ==
  /\ pc[r] = "idle"
  /\ pc' = [pc EXCEPT ![r] = "done"]
  /\ op' = [op EXCEPT ![r] = d]
  /\ resp' = [resp EXCEPT ![r] =
                [data |-> Null,
                 errors |-> IF d = "malformed" THEN <<"SyntaxError">> ELSE <<>>]]
  /\ UNCHANGED <<users, cuidSeq, everUsed, arg, res, took, part, quiet, result, view>>

\* a request with document d arrives; the document is parsed and validated
\* against the schema before any resolver runs, and is answered with the
\* error
Refuse(r, d) ==
  /\ pc[r] = "idle"
  /\ pc' = [pc EXCEPT ![r] = "done"]
  /\ op' = [op EXCEPT ![r] = d]
  /\ resp' = [resp EXCEPT ![r] =
                [data |-> Null,
                 errors |-> IF d = "malformed" THEN <<"SyntaxError">>
                            ELSE <<"ValidationError">>]]
  /\ UNCHANGED <<users, cuidSeq, everUsed, arg, res, took, part, quiet, result, view>>

\* a store call inside a transaction that spans the request: when it
\* fails, the rows the earlier root fields of the document created are
\* rolled back
StoreCall_transactional(r, f, a, c) ==
  LET Stays(u) ==
        \A k \in 1..Len(part[r]) :
          ~(part[r][k].field = "createOneUser" /\ part[r][k].res = Ok(u))
  IN /\ pc[r] = "started"
     /\ op[r] = f
     /\ users' = IF c.res.ok THEN c.tbl ELSE SelectSeq(users, Stays)
     /\ everUsed' = everUsed \cup Ids(c.tbl)
     /\ arg' = [arg EXCEPT ![r] = a]
     /\ res' = [res EXCEPT ![r] = c.res]
     /\ took' = [took EXCEPT ![r] = {}]
     /\ pc' = [pc EXCEPT ![r] = "resolved"]
     /\ quiet' = [q \in Reqs |-> quiet[q] /\ q = r]
     /\ UNCHANGED <<op, part, resp, result, view>>

\* the store call of request r, a resolver of field f with arguments a,
\* returns c
StoreCall(r, f, a, c) ==
  /\ pc[r] = "started"
  /\ op[r] = f
  /\ users' = c.tbl
  /\ everUsed' = everUsed \cup Ids(c.tbl)
  /\ arg' = [arg EXCEPT ![r] = a]
  /\ res' = [res EXCEPT ![r] = c.res]
  /\ took' = [took EXCEPT ![r] = IF f \in DeleteFields
                                  THEN Ids(users) \ Ids(c.tbl) ELSE {}]
  /\ pc' = [pc EXCEPT ![r] = "resolved"]
  /\ quiet' = [q \in Reqs |-> quiet[q] /\ q = r]
  /\ UNCHANGED <<op, part, resp, result, view>>

\* allUsers written with the store call of bigRedButton
allUsers_deleteMany(r) ==
  /\ StoreCall(r, "allUsers", NoArgs,
               [tbl |-> <<>>, res |-> Ok(findMany(users, Some(NoWhere)))])
  /\ UNCHANGED cuidSeq

\* allUsers with findMany({first: 1}): one row at most
allUsers_firstOnly(r) ==
  /\ StoreCall(r, "allUsers", NoArgs,
               [tbl |-> users, res |-> Ok(Take(findMany(users, Some(NoWhere)), 1))])
  /\ UNCHANGED cuidSeq

\* Query.allUsers: ctx.prisma.user.findMany({})
allUsers(r) ==
  /\ StoreCall(r, "allUsers", NoArgs,
               [tbl |-> users, res |-> Ok(findMany(users, Some(NoWhere)))])
  /\ UNCHANGED cuidSeq

\* t.crud.user()
user(r, where) ==
  /\ StoreCall(r, "user", Args(Null, Some(where)),
               [tbl |-> users, res |-> findUnique(users, where)])
  /\ UNCHANGED cuidSeq

\* users wired without its paging: every row, in table order
usersQuery_unpaged(r, page) ==
  /\ StoreCall(r, "users", PageArgs(page), [tbl |-> users, res |-> Ok(users)])
  /\ UNCHANGED cuidSeq

\* t.crud.users()
usersQuery(r, page) ==
  /\ StoreCall(r, "users", PageArgs(page),
               [tbl |-> users, res |-> findManyPaged(users, page)])
  /\ UNCHANGED cuidSeq

\* a bigRedButton that removes one row per call and reports them all
bigRedButton_firstRowOnly(r) ==
  /\ StoreCall(r, "bigRedButton", NoArgs,
               [tbl |-> IF users = <<>> THEN users ELSE Tail(users),
                res |-> Ok([count |-> Len(users)])])
  /\ UNCHANGED cuidSeq

\* Mutation.bigRedButton: const { count } = await ctx.prisma.user.deleteMany({})
bigRedButton(r) ==
  /\ StoreCall(r, "bigRedButton", NoArgs, deleteMany(users, Some(NoWhere)))
  /\ UNCHANGED cuidSeq

\* createOneUser wired as an upsert: a taken id has its row overwritten
createOneUser_upsert(r, data) ==
  LET i == IF IsNull(data.id) THEN Cuid(cuidSeq) ELSE data.id[1]
      u == User(i, data.name)
      c == IF IdInUse(users, i)
           THEN [tbl |-> [k \in 1..Len(users) |-> IF users[k].id = i THEN u ELSE users[k]],
                 res |-> Ok(u)]
           ELSE create(users, data, cuidSeq)
  IN /\ Len(c.tbl) <= MaxUsers
     /\ IsNull(data.id) => cuidSeq < MaxCuid
     /\ StoreCall(r, "createOneUser", Args(Some(data), Null), c)
     /\ cuidSeq' = IF IsNull(data.id) THEN cuidSeq + 1 ELSE cuidSeq

\* t.crud.createOneUser()
createOneUser(r, data) ==
  /\ Len(create(users, data, cuidSeq).tbl) <= MaxUsers
  /\ IsNull(data.id) => cuidSeq < MaxCuid
  /\ StoreCall(r, "createOneUser", Args(Some(data), Null), create(users, data, cuidSeq))
  /\ cuidSeq' = IF IsNull(data.id) THEN cuidSeq + 1 ELSE cuidSeq

\* a soft delete: the row is returned as deleted and stays in the table
deleteOneUser_keepsRow(r, where) ==
  /\ StoreCall(r, "deleteOneUser", Args(Null, Some(where)),
               [tbl |-> users, res |-> findUnique(users, where)])
  /\ UNCHANGED cuidSeq

\* t.crud.deleteOneUser()
deleteOneUser(r, where) ==
  /\ StoreCall(r, "deleteOneUser", Args(Null, Some(where)), deleteOne(users, where))
  /\ UNCHANGED cuidSeq

\* deleteManyUser that passes the field conditions of its filter on and
\* leaves AND, OR and NOT behind
deleteManyUser_fieldsOnly(r, where) ==
  /\ StoreCall(r, "deleteManyUser", Args(Null, Some(where)),
               deleteMany(users,
                          IF IsNull(where) THEN where
                          ELSE Some([where[1] EXCEPT !.AND = Null, !.OR = Null,
                                                     !.NOT = Null])))
  /\ UNCHANGED cuidSeq

\* deleteManyUser that does not pass its where argument on
deleteManyUser_whereDropped(r, where) ==
  /\ StoreCall(r, "deleteManyUser", Args(Null, Some(where)), deleteMany(users, Null))
  /\ UNCHANGED cuidSeq

\* t.crud.deleteManyUser()
deleteManyUser(r, where) ==
  /\ StoreCall(r, "deleteManyUser", Args(Null, Some(where)), deleteMany(users, where))
  /\ UNCHANGED cuidSeq

\* updateOneUser wired as an upsert: a missing row is inserted
updateOneUser_upsert(r, data, where) ==
  LET c == updateOne(users, data, where)
      u == ApplyUpdate(User(where.id[1], <<>>), data)
  IN /\ StoreCall(r, "updateOneUser", Args(Some(data), Some(where)),
                  IF c.res = Err("NotFound")
                  THEN [tbl |-> Append(users, u), res |-> Ok(u)]
                  ELSE c)
     /\ UNCHANGED cuidSeq

\* t.crud.updateOneUser()
updateOneUser(r, data, where) ==
  /\ StoreCall(r, "updateOneUser", Args(Some(data), Some(where)),
               updateOne(users, data, where))
  /\ UNCHANGED cuidSeq

\* updateManyUser that writes row by row and stops at the row that breaks
\* the primary key: the rows before it stay written
updateManyUser_rowByRow(r, data, where) ==
  LET c == updateMany(users, data, where)
      hit == {k \in 1..Len(users) : MatchesMaybe(where, users[k])}
      first == CHOOSE k \in hit : \A j \in hit : k <= j
  IN /\ StoreCall(r, "updateManyUser", Args(Some(data), Some(where)),
                  IF c.res.ok \/ hit = {} THEN c
                  ELSE [tbl |-> [users EXCEPT ![first] = ApplyUpdate(@, data)],
                        res |-> c.res])
     /\ UNCHANGED cuidSeq

\* updateManyUser that does not pass its where argument on
updateManyUser_whereDropped(r, data, where) ==
  /\ StoreCall(r, "updateManyUser", Args(Some(data), Some(where)),
               updateMany(users, data, Null))
  /\ UNCHANGED cuidSeq

\* t.crud.updateManyUser()
updateManyUser(r, data, where) ==
  /\ StoreCall(r, "updateManyUser", Args(Some(data), Some(where)),
               updateMany(users, data, where))
  /\ UNCHANGED cuidSeq

\* the deleteMany result interpolated whole: "[object Object]"
Destroyed_notDestructured(count) ==
  <<91, 111, 98, 106, 101, 99, 116, 32, 79, 98, 106, 101, 99, 116, 93>> \o sDestroyed

\* return `${count} user(s) destroyed. Thanos will be proud.`
Destroyed(count) == Decimal(count) \o sDestroyed

\* the {data, errors} envelope of root field f whose store call returned x
Envelope(f, x) ==
  IF x.ok
  THEN [data |-> Some(IF f = "bigRedButton" THEN Destroyed(x.value.count) ELSE x.value),
        errors |-> <<>>]
  ELSE IF x.error = "NotFound" /\ f \in NullOnNotFound
       THEN [data |-> Null, errors |-> <<>>]
       ELSE [data |-> Null, errors |-> <<x.error>>]

\* the response to a document whose root fields, in order, are done:
\* done[k] is [field, res]. A document of one root field is answered with
\* the envelope of that field; with more root fields data lists the data of
\* each, the errors are collected, and data is null as a whole when a root
\* field of non-null type has failed.
Response(done) ==
  LET env(k) == Envelope(done[k].field, done[k].res)
      RECURSIVE errs(_)
      errs(k) == IF k = 0 THEN <<>> ELSE errs(k - 1) \o env(k).errors
  IN IF Len(done) = 1 THEN env(1)
     ELSE [data |-> IF \E k \in 1..Len(done) :
                         env(k).errors # <<>> /\ done[k].field \notin NullableFields
                    THEN Null
                    ELSE Some([k \in 1..Len(done) |-> env(k).data]),
           errors |-> errs(Len(done))]

\* the root fields of a document are all queries or all mutations
SameRoot(f, g) == (f \in QueryFields) = (g \in QueryFields)

\* the executor of request r goes on to the next root field f of the
\* document; it does not after the failure of a root field of non-null type
Continue(r, f) ==
  /\ pc[r] = "resolved"
  /\ Len(part[r]) + 1 < MaxFields
  /\ SameRoot(op[r], f)
  /\ res[r].ok \/ op[r] \in NullableFields
  /\ part' = [part EXCEPT ![r] = Append(@, [field |-> op[r], res |-> res[r]])]
  /\ pc' = [pc EXCEPT ![r] = "started"]
  /\ op' = [op EXCEPT ![r] = f]
  /\ arg' = [arg EXCEPT ![r] = NoArgs]
  /\ res' = [res EXCEPT ![r] = NoRes]
  /\ took' = [took EXCEPT ![r] = {}]
  /\ UNCHANGED <<users, cuidSeq, everUsed, resp, quiet, result, view>>

\* a handler that does not wait for the resolver: the response may be
\* sent while the store call is still to be made
Respond_early(r) ==
  /\ pc[r] \in {"started", "resolved"}
  /\ pc' = [pc EXCEPT ![r] = "done"]
  /\ resp' = [resp EXCEPT ![r] =
                Response(Append(part[r], [field |-> op[r], res |-> res[r]]))]
  /\ arg' = [arg EXCEPT ![r] = NoArgs]
  /\ res' = [res EXCEPT ![r] = NoRes]
  /\ took' = [took EXCEPT ![r] = {}]
  /\ UNCHANGED <<users, cuidSeq, everUsed, op, part, quiet, result, view>>

\* the last resolver of request r returns and the response is sent
Respond(r) ==
  /\ pc[r] = "resolved"
  /\ pc' = [pc EXCEPT ![r] = "done"]
  /\ resp' = [resp EXCEPT ![r] =
                Response(Append(part[r], [field |-> op[r], res |-> res[r]]))]
  /\ arg' = [arg EXCEPT ![r] = NoArgs]
  /\ res' = [res EXCEPT ![r] = NoRes]
  /\ took' = [took EXCEPT ![r] = {}]
  /\ UNCHANGED <<users, cuidSeq, everUsed, op, part, quiet, result, view>>

\* the response leaves the endpoint; the slot serves the next request
Release(r) ==
  /\ pc[r] = "done"
  /\ pc' = [pc EXCEPT ![r] = "idle"]
  /\ op' = [op EXCEPT ![r] = "none"]
  /\ resp' = [resp EXCEPT ![r] = NoResp]
  /\ quiet' = [quiet EXCEPT ![r] = FALSE]
  /\ part' = [part EXCEPT ![r] = <<>>]
  /\ UNCHANGED <<users, cuidSeq, everUsed, arg, res, took>>

\* a handler that keeps the errors of a response for the next request
Collect_errorSticks(r) ==
  /\ pc[r] = "done"
  /\ pc' = [pc EXCEPT ![r] = "idle"]
  /\ op' = [op EXCEPT ![r] = "none"]
  /\ resp' = [resp EXCEPT ![r] = IF resp[r].errors = <<>> THEN NoResp ELSE @]
  /\ quiet' = [quiet EXCEPT ![r] = FALSE]
  /\ part' = [part EXCEPT ![r] = <<>>]
  /\ UNCHANGED <<users, cuidSeq, everUsed, arg, res, took, result, view>>

\* a client other than the page has its response
Collect(r) == Release(r) /\ UNCHANGED <<result, view>>

\* the resolver of the root field of request r runs, its arguments drawn
\* from the given sets
Resolve(r, creates, updates, uniques, wheres, pages) ==
  \/ allUsers(r)
  \/ \E where \in uniques : user(r, where)
  \/ \E page \in pages : usersQuery(r, page)
  \/ bigRedButton(r)
  \/ \E data \in creates : createOneUser(r, data)
  \/ \E where \in uniques : deleteOneUser(r, where)
  \/ \E where \in wheres : deleteManyUser(r, where)
  \/ \E data \in updates, where \in uniques : updateOneUser(r, data, where)
  \/ \E data \in updates, where \in wheres : updateManyUser(r, data, where)

\* one step of request r, sent by a client other than the page, its inputs
\* drawn from the given sets
Step(r, creates, updates, uniques, wheres, pages) ==
  \/ \E f \in Fields : Start(r, f)
  \/ \E d \in BadDocuments : Refuse(r, d)
  \/ Resolve(r, creates, updates, uniques, wheres, pages)
  \/ Respond(r)
  \/ Collect(r)

\* a client that waits for each response before it sends the next request
Next ==
  Step("r1", UserCreateInputs, UserUpdateInputs, WhereUniqueInputs, MaybeWhereInputs,
       PageInputs)

Spec == Init /\ [][Next]_vars

\* requests in flight together; the inputs are narrowed to keep the
\* interleavings enumerable
ConcCreateInputs == {d \in UserCreateInputs : d.id \in {Null, Some(sOne)} /\ d.name = sAlice}
ConcUpdateInputs ==
  {[id |-> Some([set |-> sOne]), name |-> Null],
   [id |-> Null, name |-> Some([set |-> sBob])]}
ConcWhereUniqueInputs == {WhereUnique(Some(sOne))}
ConcWhereInputs == {Null, Some(wNameHasB)}
ConcPageInputs == {Page(Some(1), Null, Null, Null)}

NextConc ==
  \E r \in Reqs :
    Step(r, ConcCreateInputs, ConcUpdateInputs, ConcWhereUniqueInputs, ConcWhereInputs,
         ConcPageInputs)

SpecConc == Init /\ [][NextConc]_vars

\* a client that sends documents of up to MaxFields root fields and waits
\* for each response; the inputs are narrowed as above
DocWhereUniqueInputs == {WhereUnique(Null), WhereUnique(Some(sOne))}
DocUpdateInputs ==
  ConcUpdateInputs \cup
    {[id |-> Null, name |-> Some(SetNull)], [id |-> Some(SetNull), name |-> Null]}

NextDoc ==
  \/ Step("r1", ConcCreateInputs, DocUpdateInputs, DocWhereUniqueInputs,
          ConcWhereInputs, ConcPageInputs)
  \/ \E f \in Fields : Continue("r1", f)

SpecDoc == Init /\ [][NextDoc]_vars

(* ---------------------------------------------------------------------- *)
(* The page: the AllUsers component and its query                          *)
(* ---------------------------------------------------------------------- *)
\* the <li key={user?.id}>{user?.name}</li> of each User of the data
Items(data) ==
  IF IsNull(data) THEN <<>>
  ELSE [k \in 1..Len(data[1]) |-> [key |-> data[1][k].id, text |-> data[1][k].name]]

\* a component that looks at error before it looks at fetching
AllUsers_errorFirst(rs) ==
  IF ~IsNull(rs.error)
  THEN [kind |-> "error", message |-> rs.error, count |-> Null, items |-> <<>>]
  ELSE IF rs.fetching
  THEN [kind |-> "loading", message |-> Null, count |-> Null, items |-> <<>>]
  ELSE [kind |-> "list", message |-> Null,
        count |-> IF IsNull(rs.data) THEN Null ELSE Some(Len(rs.data[1])),
        items |-> Items(rs.data)]

\* const AllUsers: React.FC: what it returns for the result rs of the
\* hook: <p>Loading...</p>, <p>Oh no... {error.message}</p>, or the count
\* data?.allUsers?.length and the list of the Users
AllUsers(rs) ==
  IF rs.fetching
  THEN [kind |-> "loading", message |-> Null, count |-> Null, items |-> <<>>]
  ELSE IF ~IsNull(rs.error)
  THEN [kind |-> "error", message |-> rs.error, count |-> Null, items |-> <<>>]
  ELSE [kind |-> "list", message |-> Null,
        count |-> IF IsNull(rs.data) THEN Null ELSE Some(Len(rs.data[1])),
        items |-> Items(rs.data)]

\* useAllUsersQuery() runs the AllUsers query: when the component mounts
\* and whenever the client runs the query again. The result is fetching and
\* keeps the data and the error it had; the component renders again.
ExecuteQuery ==
  /\ Dispatch("r1", "allUsers")
  /\ result' = [result EXCEPT !.fetching = TRUE]
  /\ view' = AllUsers(result')

\* a hook that hands on no data
Receive_noData ==
  /\ Release("r1")
  /\ result' = [data |-> Null, fetching |-> FALSE,
                error |-> IF resp["r1"].errors = <<>> THEN Null
                          ELSE Some(resp["r1"].errors[1])]
  /\ view' = AllUsers(result')

\* the response arrives at the page: the hook returns its data and its
\* error, and the component renders again
Receive ==
  /\ Release("r1")
  /\ result' = [data |-> resp["r1"].data, fetching |-> FALSE,
                error |-> IF resp["r1"].errors = <<>> THEN Null
                          ELSE Some(resp["r1"].errors[1])]
  /\ view' = AllUsers(result')

\* the response does not arrive: fetch fails and the hook returns the
\* network error, without data
FetchFails ==
  /\ Release("r1")
  /\ result' = [data |-> Null, fetching |-> FALSE, error |-> Some("NetworkError")]
  /\ view' = AllUsers(result')

\* the page next to another client of the endpoint (r2), whose inputs are
\* narrowed to Users with the ids "1" and "2"
PageCreateInputs ==
  {d \in UserCreateInputs : d.id \in {Some(sOne), Some(sTwo)} /\ d.name = sAlice}
PageUpdateInputs == {[id |-> Null, name |-> Null]}

NextPage ==
  \/ ExecuteQuery
  \/ allUsers("r1")
  \/ Respond("r1")
  \/ Receive
  \/ FetchFails
  \/ Step("r2", PageCreateInputs, PageUpdateInputs, ConcWhereUniqueInputs,
          {Null}, ConcPageInputs)

SpecPage == Init /\ [][NextPage]_vars

\* the bounded table and id generator have room for the row a
\* createOneUser may add
Room(f) == f = "createOneUser" => (Len(users) < MaxUsers /\ cuidSeq < MaxCuid)

LiveResolve ==
  Resolve("r1", ConcCreateInputs, ConcUpdateInputs, DocWhereUniqueInputs,
          ConcWhereInputs, ConcPageInputs)

\* the client of SpecDoc, its accepted requests only. Each resolver awaits
\* its one store call and returns, and the handler sends the response when
\* the last resolver has returned: none of them waits for anything else, so
\* a resolver that can run does, and a response that can be sent is.
NextLive ==
  \/ \E f \in Fields : Room(f) /\ Start("r1", f)
  \/ LiveResolve
  \/ \E f \in Fields : Room(f) /\ Continue("r1", f)
  \/ Respond("r1")
  \/ Collect("r1")

SpecLive ==
  /\ Init /\ [][NextLive]_vars
  /\ WF_vars(LiveResolve)
  /\ WF_vars(Respond("r1"))

TypeOK ==
  /\ Len(users) <= MaxUsers
  /\ cuidSeq \in 0..MaxCuid
  /\ \A r \in Reqs : pc[r] \in {"idle", "started", "resolved", "done"}
  /\ \A r \in Reqs : Len(part[r]) < MaxFields

(* ---------------------------------------------------------------------- *)
(* Properties                                                              *)
(* ---------------------------------------------------------------------- *)
\* the step is the store call of request r, made for root field f; its
\* arguments are arg'[r] and its result is res'[r]
Called(r, f) == pc[r] = "started" /\ op[r] = f /\ pc'[r] = "resolved"

\* the step sends the response of request r, asked for root field f
Answered(r, f) == pc[r] = "resolved" /\ op[r] = f /\ pc'[r] = "done"

\* the rows of tbl a filter given as Maybe<UserWhereInput> selects
Hit(tbl, mw) == {k \in 1..Len(tbl) : mw = <<>> \/ Matches(mw[1], tbl[k])}

\* one row after the `set` operations of data
Updated(u, data) ==
  [id |-> IF data.id = <<>> THEN u.id ELSE data.id[1].set,
   name |-> IF data.name = <<>> THEN u.name ELSE data.name[1].set]

\* the text "<n> user(s) destroyed. Thanos will be proud." for n < 100
ThanosText(n) ==
  (IF n < 10 THEN <<48 + n>> ELSE <<48 + (n \div 10), 48 + (n % 10)>>)
    \o <<32, 117, 115, 101, 114, 40, 115, 41, 32, 100, 101, 115, 116, 114, 111,
         121, 101, 100, 46, 32, 84, 104, 97, 110, 111, 115, 32, 119, 105, 108,
         108, 32, 98, 101, 32, 112, 114, 111, 117, 100, 46>>

\* C1: the store call of bigRedButton on a table of N users (N >= 0)
\* removes them all and yields N; its response is exactly
\* "N user(s) destroyed. Thanos will be proud." with no error; and as long
\* as no other request has called the store since the bigRedButton request
\* started, the store holds no user.
C1_BigRedButtonDestroysAll ==
  /\ [][\A r \in Reqs :
          /\ Called(r, "bigRedButton")
               => users' = <<>> /\ res'[r] = Ok([count |-> Len(users)])
          /\ Answered(r, "bigRedButton")
               => resp'[r] = [data |-> <<ThanosText(res[r].value.count)>>,
                              errors |-> <<>>]]_vars
  /\ [](\A r \in Reqs :
          (pc[r] \in {"resolved", "done"} /\ op[r] = "bigRedButton" /\ quiet[r])
            => users = <<>>)

\* C1 witness: an undisturbed bigRedButton has answered that it destroyed as
\* many users as the model holds, while another request is in flight
C1_Witness ==
  \E r, q \in Reqs :
    /\ pc[r] = "done" /\ op[r] = "bigRedButton" /\ quiet[r]
    /\ resp[r] = [data |-> <<ThanosText(MaxUsers)>>, errors |-> <<>>]
    /\ q # r /\ pc[q] = "started"

\* C2: in every reachable state no two rows of the User table have the same
\* id, whatever creates, updates (also those that set id) and deletes ran.
C2_NoTwoUsersShareId ==
  \A j, k \in 1..Len(users) : j # k => users[j].id # users[k].id

\* C2 witness: an updateManyUser whose data sets id, and that would have
\* given two users one id, was refused; both users are still in the store
C2_Witness ==
  /\ pc["r1"] = "resolved" /\ op["r1"] = "updateManyUser"
  /\ arg["r1"].data[1].id # <<>>
  /\ res["r1"] = Err("ConflictError")
  /\ Len(users) = 2

\* the rows that are in the table before and after a step keep their ids:
\* an update keeps every row in place, a create appends, a delete removes
IdsKept ==
  \/ /\ Len(users') = Len(users)
     /\ \A k \in 1..Len(users) : users'[k].id = users[k].id
  \/ /\ Len(users') = Len(users) + 1
     /\ SubSeq(users', 1, Len(users)) = users
  \/ /\ Len(users') < Len(users)
     /\ LET Stays(u) == u.id \in Ids(users') IN users' = SelectSeq(users, Stays)

\* the step is the store call of an updateOneUser or updateManyUser whose
\* data sets id
SetsId ==
  \E r \in Reqs :
    /\ Called(r, "updateOneUser") \/ Called(r, "updateManyUser")
    /\ arg'[r].data[1].id # <<>>

\* C3 as stated: in every step of every operation, each User that exists
\* before and after the step has the same id.
C3_IdNeverChanges == [][IdsKept]_vars

\* C3 amended: each User that exists before and after a step has the same
\* id, except in a step of updateOneUser or updateManyUser whose data sets id.
C3_IdChangesOnlyBySetId == [][IdsKept \/ SetsId]_vars

\* C3 witness: updateOneUser has moved the User with id "1" to the id "2"
C3_Witness ==
  /\ pc["r1"] = "resolved" /\ op["r1"] = "updateOneUser"
  /\ arg["r1"].where[1].id = <<sOne>>
  /\ arg["r1"].data[1].id = <<[set |-> sTwo]>>
  /\ res["r1"].ok /\ res["r1"].value.id = sTwo
  /\ sTwo \in Ids(users) /\ sOne \notin Ids(users)

\* the step is the store call of a createOneUser of r without an id
CreatesWithoutId(r) == Called(r, "createOneUser") /\ arg'[r].data[1].id = <<>>

C5_DuplicateIdConflicts ==
  [][\A r \in Reqs :
       /\ ( /\ Called(r, "createOneUser")
            /\ arg'[r].data[1].id # <<>>
            /\ \E k \in 1..Len(users) : users[k].id = arg'[r].data[1].id[1] )
            => res'[r] = Err("ConflictError") /\ users' = users
       /\ (Answered(r, "createOneUser") /\ ~res[r].ok)
            => resp'[r] = [data |-> <<>>, errors |-> <<"ConflictError">>]]_vars

\* C5 witness: a createOneUser that supplied the id "1" of a live User was
\* refused with the conflict
C5_Witness ==
  /\ pc["r1"] = "resolved" /\ op["r1"] = "createOneUser"
  /\ arg["r1"].data[1].id = <<sOne>>
  /\ res["r1"] = Err("ConflictError")
  /\ sOne \in Ids(users)

\* C6: under every interleaving of createOneUser requests, with or without
\* a supplied id, the table never holds two rows with one id; a create whose
\* id is the id of a row that a create still in flight has inserted does not
\* succeed and writes nothing.
C6_ConcurrentCreatesNeverShareId ==
  /\ [](\A j, k \in 1..Len(users) : users[j].id = users[k].id => j = k)
  /\ [][\A r, q \in Reqs :
          ( /\ q # r
            /\ pc[q] = "resolved" /\ op[q] = "createOneUser" /\ res[q].ok
            /\ res[q].value.id \in Ids(users)
            /\ Called(r, "createOneUser")
            /\ res[q].value.id =
                 (IF arg'[r].data[1].id = <<>> THEN <<99, 48 + cuidSeq>>
                  ELSE arg'[r].data[1].id[1]) )
          => ~res'[r].ok /\ users' = users]_vars

\* C6 witness: two createOneUser requests with the same id are in flight
\* together; the first has inserted its User and the second was refused
C6_Witness ==
  /\ pc["r1"] = "resolved" /\ op["r1"] = "createOneUser"
  /\ pc["r2"] = "resolved" /\ op["r2"] = "createOneUser"
  /\ arg["r1"].data[1].id = <<sOne>> /\ arg["r2"].data[1].id = <<sOne>>
  /\ res["r1"].ok
  /\ res["r2"] = Err("ConflictError")
  /\ Len(users) = 1 /\ users[1].id = sOne

\* C7: a bulk operation changes the table in one step, in which all the rows
\* it selects are deleted or updated or (a refused update) none is, and the
\* count it reports is the number of rows that step wrote; a query reads
\* the table of one state, so no reader sees a bulk operation half applied.
C7_BulkOperationsAtomic ==
  [][\A r \in Reqs :
       /\ Called(r, "bigRedButton")
            => users' = <<>> /\ res'[r].value.count = Len(users) - Len(users')
       /\ Called(r, "deleteManyUser")
            => /\ \A k \in Hit(users, arg'[r].where[1]) : users[k].id \notin Ids(users')
               /\ res'[r].value.count = Len(users) - Len(users')
       /\ Called(r, "updateManyUser")
            => \/ /\ ~res'[r].ok
                  /\ users' = users
               \/ /\ res'[r].ok
                  /\ Len(users') = Len(users)
                  /\ \A k \in Hit(users, arg'[r].where[1]) :
                       users'[k] = Updated(users[k], arg'[r].data[1])
                  /\ res'[r].value.count =
                       Cardinality({k \in 1..Len(users) :
                                      k \in Hit(users, arg'[r].where[1])
                                        \/ users'[k] # users[k]})
       /\ Called(r, "allUsers") => res'[r] = Ok(users) /\ users' = users
       /\ Called(r, "user")
            => /\ users' = users
               /\ res'[r].ok => \E k \in 1..Len(users) : users[k] = res'[r].value]_vars

\* C7 witness: an allUsers request holds the two users it read while a bulk
\* operation in flight beside it has removed both and reports two
C7_Witness ==
  \E r, q \in Reqs :
    /\ pc[r] = "resolved" /\ op[r] = "allUsers" /\ Len(res[r].value) = 2
    /\ pc[q] = "resolved" /\ op[q] \in {"deleteManyUser", "bigRedButton"}
    /\ res[q] = Ok([count |-> 2])
    /\ users = <<>>

\* C8: deleteMany(F) returns the number of Users that matched F right
\* before the call, and findMany(F) on the table it leaves is empty.
C8_DeleteManyCountsAndClears ==
  [][\A r \in Reqs :
       Called(r, "deleteManyUser")
         => /\ res'[r] = Ok([count |-> Cardinality(Hit(users, arg'[r].where[1]))])
            /\ findMany(users', arg'[r].where[1]) = <<>>]_vars

\* C8 witness: a deleteManyUser with a filter removed one of two users and
\* reports one
C8_Witness ==
  /\ pc["r1"] = "resolved" /\ op["r1"] = "deleteManyUser"
  /\ arg["r1"].where[1] # <<>>
  /\ res["r1"] = Ok([count |-> 1])
  /\ Len(users) = 1 /\ Cardinality(everUsed) = 2

WouldShareId(tbl, data, mw) ==
  LET new == [k \in 1..Len(tbl) |->
                IF k \in Hit(tbl, mw) THEN Updated(tbl[k], data) ELSE tbl[k]]
  IN \E j, k \in 1..Len(tbl) : j # k /\ new[j].id = new[k].id

C10_NonMatchingUntouched ==
  [][\A r \in Reqs :
       /\ Called(r, "deleteManyUser")
            => \A k \in (1..Len(users)) \ Hit(users, arg'[r].where[1]) :
                 \E j \in 1..Len(users') : users'[j] = users[k]
       /\ Called(r, "updateManyUser")
            => /\ Len(users') = Len(users)
               /\ \A k \in (1..Len(users)) \ Hit(users, arg'[r].where[1]) :
                    users'[k] = users[k]]_vars

\* C10 witness: an updateManyUser that sets the name to "bob" wrote one of
\* two users, and the other one is still called "Alice"
C10_Witness ==
  /\ pc["r1"] = "resolved" /\ op["r1"] = "updateManyUser"
  /\ arg["r1"].data[1].name = <<[set |-> sBob]>>
  /\ res["r1"] = Ok([count |-> 1])
  /\ Len(users) = 2 /\ \E k \in 1..2 : users[k].name = sAlice

\* the step is a store call that selects the row users[k] for an update or
\* a delete
Touches(k) ==
  \E r \in Reqs :
    \/ Called(r, "bigRedButton")
    \/ /\ Called(r, "deleteOneUser") \/ Called(r, "updateOneUser")
       /\ arg'[r].where[1].id = <<users[k].id>>
    \/ /\ Called(r, "deleteManyUser") \/ Called(r, "updateManyUser")
       /\ k \in Hit(users, arg'[r].where[1])

\* C11: a createOneUser with name n that returns a User with id i has put
\* the row (i, n) into the store; a row stays in the store, id and name as
\* they are, through every step that is not an update or delete selecting
\* it; user(where:{id:i}) returns the row with id i while there is one; a
\* deleteOneUser(where:{id:i}) that succeeds leaves no row with id i, and
\* user(where:{id:i}) on a store without such a row yields NotFound, which
\* is answered as null data without an error.
C11_CreateLookupDeleteSequence ==
  [][/\ \A k \in 1..Len(users) :
          Touches(k) \/ \E j \in 1..Len(users') : users'[j] = users[k]
     /\ \A r \in Reqs :
          /\ (Called(r, "createOneUser") /\ res'[r].ok)
               => /\ res'[r].value.name = arg'[r].data[1].name
                  /\ \E j \in 1..Len(users') : users'[j] = res'[r].value
          /\ (Called(r, "user") /\ arg'[r].where[1].id # <<>>)
               => IF \E k \in 1..Len(users) : <<users[k].id>> = arg'[r].where[1].id
                  THEN /\ res'[r].ok
                       /\ <<res'[r].value.id>> = arg'[r].where[1].id
                       /\ \E k \in 1..Len(users) : users[k] = res'[r].value
                  ELSE res'[r] = [ok |-> FALSE, error |-> "NotFound"]
          /\ (Called(r, "deleteOneUser") /\ res'[r].ok)
               => \A j \in 1..Len(users') : <<users'[j].id>> # arg'[r].where[1].id
          /\ (Answered(r, "user") /\ res[r] = [ok |-> FALSE, error |-> "NotFound"])
               => resp'[r] = [data |-> <<>>, errors |-> <<>>]]_vars

\* C11 witness: the id the store generated for a created User has been
\* deleted again, and the lookup of that id is answered with null and no error
C11_Witness ==
  /\ pc["r1"] = "done" /\ op["r1"] = "user"
  /\ resp["r1"] = [data |-> <<>>, errors |-> <<>>]
  /\ cuidSeq > 0 /\ <<99, 48>> \in everUsed /\ users = <<>>

C13_UserAnswersRowOrNull ==
  [][\A r \in Reqs :
       (Answered(r, "user") /\ arg[r].where[1].id # <<>>)
         => LET live == {k \in 1..Len(users) : <<users[k].id>> = arg[r].where[1].id}
            IN /\ Cardinality(live) <= 1
               /\ resp'[r].errors = <<>>
               /\ \A k \in live : resp'[r].data = <<users[k]>>
               /\ live = {} => resp'[r].data = <<>>]_vars

\* C13 witness: a lookup in a store of two users was answered with the User
\* that has the id "2"
C13_Witness ==
  /\ pc["r1"] = "done" /\ op["r1"] = "user"
  /\ Len(users) = 2
  /\ resp["r1"].errors = <<>>
  /\ resp["r1"].data # <<>> /\ resp["r1"].data[1].id = sTwo
  /\ \E k \in 1..2 : users[k] = resp["r1"].data[1]

\* the smaller of two numbers
Smaller(m, n) == IF m < n THEN m ELSE n

\* a precedes b in the lexicographic order of the character codes
Precedes(a, b) ==
  \/ /\ Len(a) < Len(b)
     /\ \A n \in 1..Len(a) : a[n] = b[n]
  \/ \E n \in 1..Smaller(Len(a), Len(b)) :
       /\ \A m \in 1..(n - 1) : a[m] = b[m]
       /\ a[n] < b[n]

\* C18: users(first, last, before, after) with cursors that name an id
\* returns live Users in strictly ascending order of their ids (the same
\* order on every call); with after set every returned id comes after the
\* cursor id, with before set every returned id comes before it; with first
\* (last) set at most that many Users are returned; with only first set they
\* are the Users with the smallest ids of those the cursors leave, with only
\* last set those with the largest ids, and with neither all of them.
C18_UsersPagination ==
  [][\A r \in Reqs :
       ( /\ Called(r, "users")
         /\ arg'[r].page[1].before # <<>> => arg'[r].page[1].before[1].id # <<>>
         /\ arg'[r].page[1].after # <<>> => arg'[r].page[1].after[1].id # <<>> )
       => LET p == arg'[r].page[1]
              out == res'[r].value
              got == {out[j] : j \in 1..Len(out)}
              rest == {u \in {users[k] : k \in 1..Len(users)} :
                         /\ p.after # <<>> => Precedes(p.after[1].id[1], u.id)
                         /\ p.before # <<>> => Precedes(u.id, p.before[1].id[1])}
          IN /\ res'[r].ok
             /\ \A j, k \in 1..Len(out) : j < k => Precedes(out[j].id, out[k].id)
             /\ got \subseteq rest
             /\ p.first # <<>> => Len(out) <= p.first[1]
             /\ p.last # <<>> => Len(out) <= p.last[1]
             /\ (p.first # <<>> /\ p.last = <<>>)
                  => /\ Len(out) = Smaller(p.first[1], Cardinality(rest))
                     /\ \A u \in rest \ got : \A o \in got : Precedes(o.id, u.id)
             /\ (p.last # <<>> /\ p.first = <<>>)
                  => /\ Len(out) = Smaller(p.last[1], Cardinality(rest))
                     /\ \A u \in rest \ got : \A o \in got : Precedes(u.id, o.id)
             /\ (p.first = <<>> /\ p.last = <<>>) => got = rest]_vars

\* C18 witness: the store holds the User with id "2" before the User with
\* id "1"; users(first: 1) returned the User with id "1" alone
C18_Witness ==
  /\ pc["r1"] = "resolved" /\ op["r1"] = "users"
  /\ arg["r1"].page = <<[first |-> <<1>>, last |-> <<>>, before |-> <<>>, after |-> <<>>]>>
  /\ Len(users) = 2 /\ users[1].id = sTwo /\ users[2].id = sOne
  /\ res["r1"].ok /\ Len(res["r1"].value) = 1 /\ res["r1"].value[1].id = sOne

\* the elements of a sequence
Range(s) == {s[k] : k \in 1..Len(s)}

\* the rows the result x of query field f carries: user yields one User,
\* users and allUsers a list of Users
Returned(f, x) ==
  IF ~x.ok THEN {}
  ELSE IF f = "user" THEN {x.value}
  ELSE {x.value[k] : k \in 1..Len(x.value)}

\* C14 as stated: a query (user, users, allUsers) that starts after a
\* deleteOneUser, deleteManyUser or bigRedButton has removed a User never
\* returns a User with the id of the removed one, whatever ran in between.
C14_DeletedNeverReturned ==
  \A r, q \in Reqs :
    ( /\ r # q
      /\ pc[r] = "resolved" /\ took[r] # {}
      /\ pc[q] = "resolved" /\ op[q] \in {"user", "users", "allUsers"} /\ quiet[q] )
    => \A u \in Returned(op[q], res[q]) : u.id \notin took[r]

\* C14 amended: deletion is immediate: the store call of deleteOneUser,
\* deleteManyUser or bigRedButton leaves no row with an id it removed; a
\* query returns only rows the store holds at its call; and a row with an
\* id the store does not hold comes into the store only by a createOneUser
\* that returns a User with that id or by an updateOneUser / updateManyUser
\* whose data sets id to it. So a removed User is returned by no later
\* query unless such a create or update has put its id back.
C14_DeletedUntilRecreated ==
  [][/\ \A r \in Reqs :
          /\ \A f \in {"deleteOneUser", "deleteManyUser", "bigRedButton"} :
               Called(r, f)
                 => /\ took'[r] = Ids(users) \ Ids(users')
                    /\ \A k \in 1..Len(users') : users'[k] \in Range(users)
          /\ \A f \in {"user", "users", "allUsers"} :
               Called(r, f)
                 => /\ users' = users
                    /\ Returned(f, res'[r]) \subseteq Range(users)
     /\ \A i \in Ids(users') \ Ids(users) :
          \E r \in Reqs :
            \/ /\ Called(r, "createOneUser")
               /\ res'[r].ok /\ res'[r].value.id = i
            \/ /\ Called(r, "updateOneUser") \/ Called(r, "updateManyUser")
               /\ arg'[r].data[1].id = <<[set |-> i]>>]_vars

\* C14 witness: one request has deleted the User with id "1"; a lookup of
\* that id that started afterwards found nothing
C14_Witness ==
  \E r, q \in Reqs :
    /\ r # q
    /\ pc[r] = "resolved" /\ op[r] = "deleteOneUser" /\ took[r] = {sOne}
    /\ pc[q] = "resolved" /\ op[q] = "user" /\ quiet[q]
    /\ arg[q].where[1].id = <<sOne>>
    /\ res[q] = [ok |-> FALSE, error |-> "NotFound"]

\* C15: the response to allUsers, read by a client with no other request
\* in flight, has no error and lists exactly the Users in the store: as many
\* entries as the store has rows, every row of the store among them with its
\* id and name, and no id twice.
C15_AllUsersListsStore ==
  \A r \in Reqs :
    (pc[r] = "done" /\ op[r] = "allUsers")
      => /\ resp[r].errors = <<>>
         /\ resp[r].data # <<>>
         /\ LET list == resp[r].data[1]
            IN /\ Len(list) = Len(users)
               /\ \A k \in 1..Len(users) : \E j \in 1..Len(list) : list[j] = users[k]
               /\ \A i, j \in 1..Len(list) : list[i].id = list[j].id => i = j

\* C15 witness: allUsers was answered with two Users, "Alice" and "bob"
C15_Witness ==
  /\ pc["r1"] = "done" /\ op["r1"] = "allUsers"
  /\ resp["r1"].data # <<>> /\ Len(resp["r1"].data[1]) = 2
  /\ {resp["r1"].data[1][k].name : k \in 1..2} = {sAlice, sBob}

\* the store holds exactly the Users {id:"1", name:"Alice"} and
\* {id:"2", name:"bob"}
AliceAndBob ==
  /\ Len(users) = 2
  /\ Range(users) = {[id |-> <<49>>, name |-> <<65, 108, 105, 99, 101>>],
                     [id |-> <<50>>, name |-> <<98, 111, 98>>]}

\* the step is a deleteManyUser of r with the filter
\* {name: {contains: "b", mode: insensitive}}
DeletesNamesWithB(r) ==
  /\ Called(r, "deleteManyUser")
  /\ arg'[r].where[1] # <<>>
  /\ arg'[r].where[1][1].name # <<>>
  /\ arg'[r].where[1][1].name[1].contains = <<(<<98>>)>>
  /\ arg'[r].where[1][1].name[1].mode = <<"insensitive">>
  /\ \A key \in (DOMAIN arg'[r].where[1][1]) \ {"name"} :
       arg'[r].where[1][1][key] = <<>>
  /\ \A key \in (DOMAIN arg'[r].where[1][1].name[1]) \ {"contains", "mode"} :
       arg'[r].where[1][1].name[1][key] = <<>>

\* C16 as stated: on the store of Alice and bob the filter
\* {name: {contains: "b", mode: insensitive}} matches both Users: a
\* deleteManyUser with it removes two.
C16_FilterMatchesBoth ==
  [][\A r \in Reqs :
       (AliceAndBob /\ DeletesNamesWithB(r))
         => res'[r] = [ok |-> TRUE, value |-> [count |-> 2]] /\ users' = <<>>]_vars

\* C16 amended: on the store of Alice and bob the filter
\* {name: {contains: "b", mode: insensitive}} matches the User bob and not
\* the User Alice, whose name has no "b" or "B": a deleteManyUser with it
\* removes one User and leaves Alice.
C16_FilterMatchesBobOnly ==
  [][\A r \in Reqs :
       (AliceAndBob /\ DeletesNamesWithB(r))
         => /\ res'[r] = [ok |-> TRUE, value |-> [count |-> 1]]
            /\ users' = <<[id |-> <<49>>, name |-> <<65, 108, 105, 99, 101>>]>>]_vars

\* C16 witness: the filter was applied by deleteManyUser to a store of two
\* rows, and Alice is what is left
C16_Witness ==
  /\ pc["r1"] = "resolved" /\ op["r1"] = "deleteManyUser"
  /\ arg["r1"].where = <<(<<wNameHasB>>)>>
  /\ everUsed = {sOne, sTwo}
  /\ users = <<[id |-> sOne, name |-> sAlice]>>
  /\ res["r1"].value.count = 1

\* the predicates of a StringFilter
Predicates ==
  {"equals", "in", "notIn", "lt", "lte", "gt", "gte", "contains", "startsWith",
   "endsWith"}

\* the StringFilter made of the one predicate key of f
Single(f, key) ==
  [k \in DOMAIN f |-> IF k = key THEN f[k] ELSE <<>>]

\* a string filter holds of v: every predicate given holds, and the nested
\* filter under `not`, if given, does not hold
RECURSIVE HoldsOfString(_, _, _)
HoldsOfString(f, v, mode) ==
  /\ \A key \in Predicates :
       f[key] # <<>> => MatchString(Single(f, key), v, mode)
  /\ f.not # <<>> => ~HoldsOfString(f.not[1], v, mode)

\* a filter object holds of u: its condition on id, its condition on name,
\* each sub-filter under AND, some sub-filter under OR, and no sub-filter
\* under NOT
RECURSIVE HoldsOf(_, _)
HoldsOf(w, u) ==
  /\ w.id # <<>> => HoldsOfString(w.id[1], u.id, w.id[1].mode)
  /\ w.name # <<>> => HoldsOfString(w.name[1], u.name, w.name[1].mode)
  /\ w.AND # <<>> => \A n \in 1..Len(w.AND[1]) : HoldsOf(w.AND[1][n], u)
  /\ w.OR # <<>> => \E n \in 1..Len(w.OR[1]) : HoldsOf(w.OR[1][n], u)
  /\ w.NOT # <<>> => ~\E n \in 1..Len(w.NOT[1]) : HoldsOf(w.NOT[1][n], u)

\* the rows of the table that the filter of a bulk call selects, by HoldsOf
Selected(mw) == {k \in 1..Len(users) : mw # <<>> => HoldsOf(mw[1], users[k])}

\* C17: the Users a filter selects are those of which every predicate given
\* on id and on name holds (the nested `not` negated), every sub-filter
\* under AND holds, some sub-filter under OR holds and no sub-filter under
\* NOT holds; the filter with nothing given, and no filter, select every
\* User. deleteManyUser removes exactly the selected Users, and an
\* updateManyUser that succeeds writes exactly the selected Users.
C17_FilterIsConjunction ==
  [][\A r \in Reqs :
       /\ Called(r, "deleteManyUser")
            => /\ res'[r].value.count = Cardinality(Selected(arg'[r].where[1]))
               /\ Len(users') = Len(users) - Cardinality(Selected(arg'[r].where[1]))
               /\ \A k \in 1..Len(users) :
                    k \in Selected(arg'[r].where[1]) <=> users[k] \notin Range(users')
               /\ arg'[r].where[1] \in {<<>>, <<NoWhere>>} => users' = <<>>
       /\ (Called(r, "updateManyUser") /\ res'[r].ok)
            => /\ res'[r].value.count = Cardinality(Selected(arg'[r].where[1]))
               /\ \A k \in 1..Len(users) :
                    users'[k] = IF k \in Selected(arg'[r].where[1])
                                THEN Updated(users[k], arg'[r].data[1])
                                ELSE users[k]]_vars

\* C17 witness: of two Users called "bob", a deleteManyUser whose filter
\* asks for a "b" in the name and, under NOT, for the id "1" removed the
\* one with id "2"
C17_Witness ==
  /\ pc["r1"] = "resolved" /\ op["r1"] = "deleteManyUser"
  /\ arg["r1"].where[1] # <<>>
  /\ arg["r1"].where[1][1].name # <<>> /\ arg["r1"].where[1][1].NOT # <<>>
  /\ res["r1"].value.count = 1
  /\ users = <<[id |-> sOne, name |-> sBob]>>
  /\ everUsed = {sOne, sTwo}

\* the step is a store call of request r that fails
Fails(r) == pc[r] = "started" /\ pc'[r] = "resolved" /\ ~res'[r].ok

\* C19: no transaction spans the root fields of one request. A root field
\* that fails writes nothing, and neither it nor the steps that follow it
\* (the next root field starting, the response, its collection) undo what
\* the root fields before it wrote: after a document whose createOneUser
\* succeeded and whose next root field failed, the created User is in the
\* store, during the request and when its response, which carries the
\* error, is out.
C19_NoTransactionAcrossRootFields ==
  /\ [][\A r \in Reqs :
          /\ Fails(r) => users' = users
          /\ (pc[r] = "resolved" /\ pc'[r] # "resolved") => users' = users
          /\ (pc[r] = "done" /\ pc'[r] # "done") => users' = users
          /\ ( /\ pc[r] = "resolved" /\ ~res[r].ok /\ pc'[r] = "done"
               /\ part[r] # <<>>
               /\ part[r][Len(part[r])].field = "createOneUser" )
               => /\ part[r][Len(part[r])].res.value \in Range(users')
                  /\ res[r].error = "ConflictError"
                       => resp'[r].errors # <<>> /\ resp'[r].data = <<>>]_vars
  /\ [](\A r \in Reqs :
          ( /\ part[r] # <<>>
            /\ part[r][Len(part[r])].field = "createOneUser"
            /\ part[r][Len(part[r])].res.ok
            /\ pc[r] = "resolved" /\ ~res[r].ok )
          => part[r][Len(part[r])].res.value \in Range(users))

\* C19 witness: a document of two createOneUser with the id "1" is
\* answered with the conflict of the second, and the User the first created
\* is in the store
C19_Witness ==
  /\ pc["r1"] = "done" /\ op["r1"] = "createOneUser"
  /\ part["r1"] = <<[field |-> "createOneUser",
                     res |-> [ok |-> TRUE, value |-> [id |-> sOne, name |-> sAlice]]]>>
  /\ resp["r1"] = [data |-> <<>>, errors |-> <<"ConflictError">>]
  /\ users = <<[id |-> sOne, name |-> sAlice]>>

C26_QueriesChangeNothing ==
  [][\A r \in Reqs :
       (op'[r] \in {"allUsers", "user", "users"} /\ pc'[r] # pc[r])
         => users' = users /\ cuidSeq' = cuidSeq]_vars

\* C26 witness: users(first: 2) found nothing after the id "1"; the store
\* holds the one User it held
C26_Witness ==
  /\ pc["r1"] = "resolved" /\ op["r1"] = "users"
  /\ arg["r1"].page[1].after = <<[id |-> <<sOne>>]>>
  /\ arg["r1"].page[1].first = <<2>>
  /\ res["r1"] = [ok |-> TRUE, value |-> <<>>]
  /\ Len(users) = 1 /\ users[1].id = sOne

\* C27: an updateManyUser whose data sets id and whose filter selects two
\* or more Users, and an updateOneUser or updateManyUser that sets id to the
\* id of a live User it does not select, fail, and the table after the call
\* is the table before it; the failure is answered as a request-level error.
C27_IdSettingUpdateConflicts ==
  [][\A r \in Reqs :
       /\ ( /\ Called(r, "updateManyUser")
            /\ arg'[r].data[1].id # <<>>
            /\ \/ Cardinality(Hit(users, arg'[r].where[1])) >= 2
               \/ /\ Hit(users, arg'[r].where[1]) # {}
                  /\ \E k \in (1..Len(users)) \ Hit(users, arg'[r].where[1]) :
                       users[k].id = arg'[r].data[1].id[1].set )
            => ~res'[r].ok /\ users' = users
       /\ ( /\ Called(r, "updateOneUser")
            /\ arg'[r].data[1].id # <<>>
            /\ arg'[r].where[1].id # <<>>
            /\ arg'[r].where[1].id[1] # arg'[r].data[1].id[1].set
            /\ \E j, k \in 1..Len(users) :
                 /\ users[j].id = arg'[r].where[1].id[1]
                 /\ users[k].id = arg'[r].data[1].id[1].set )
            => ~res'[r].ok /\ users' = users
       /\ ( /\ Answered(r, "updateOneUser") \/ Answered(r, "updateManyUser")
            /\ res[r] = [ok |-> FALSE, error |-> "ConflictError"] )
            => resp'[r].errors # <<>> /\ resp'[r].data = <<>>]_vars

\* C27 witness: updateOneUser was to give the User with id "2" the id "1"
\* of the other User and was refused; both Users have their ids
C27_Witness ==
  /\ pc["r1"] = "resolved" /\ op["r1"] = "updateOneUser"
  /\ arg["r1"].where[1].id = <<sTwo>>
  /\ arg["r1"].data[1].id = <<[set |-> sOne]>>
  /\ ~res["r1"].ok
  /\ Len(users) = 2 /\ {users[1].id, users[2].id} = {sOne, sTwo}

\* C28: a step that leaves more Users in the store than it found is the
\* store call of a createOneUser that succeeds; that call appends the User
\* it returns, one row, and leaves every row that was there as it was.
C28_UsersEnterByCreateOnly ==
  [][/\ Len(users') > Len(users)
          => \E r \in Reqs : Called(r, "createOneUser") /\ res'[r].ok
     /\ \A r \in Reqs :
          (Called(r, "createOneUser") /\ res'[r].ok)
            => /\ Len(users') = Len(users) + 1
               /\ \A k \in 1..Len(users) : users'[k] = users[k]
               /\ users'[Len(users')] = res'[r].value]_vars

\* C28 witness: a createOneUser with the id "2" added the second User
\* after the User with id "1"
C28_Witness ==
  /\ pc["r1"] = "resolved" /\ op["r1"] = "createOneUser"
  /\ arg["r1"].data[1].id = <<sTwo>>
  /\ res["r1"].ok
  /\ Len(users) = 2 /\ users[1].id = sOne /\ users[2] = res["r1"].value

\* C21: a document that does not parse, or that asks for a field the
\* schema does not declare, is answered with a request-level error and no
\* data; no resolver runs for it (the request is never dispatched and no
\* store call is recorded), the table and the id generator stay as they
\* were, and once the error is collected the endpoint takes the next
\* request, with nothing of the refused one left.
C21_BadDocumentRefused ==
  /\ [](\A r \in Reqs : op[r] \in BadDocuments => pc[r] = "done")
  /\ [][\A r \in Reqs :
          /\ op'[r] \in BadDocuments /\ op[r] \notin BadDocuments
               => /\ pc[r] = "idle" /\ pc'[r] = "done"
                  /\ resp'[r].data = <<>> /\ resp'[r].errors # <<>>
                  /\ users' = users /\ cuidSeq' = cuidSeq
                  /\ arg' = arg /\ res' = res
          /\ op[r] \in BadDocuments /\ <<pc'[r], op'[r]>> # <<pc[r], op[r]>>
               => /\ pc'[r] = "idle" /\ resp'[r] = NoResp
                  /\ users' = users /\ cuidSeq' = cuidSeq]_vars

\* C21 witness: a document with an unknown field was refused while the
\* store holds two Users
C21_Witness ==
  /\ pc["r1"] = "done" /\ op["r1"] = "unknownField"
  /\ resp["r1"].errors # <<>>
  /\ Len(users) = 2

\* C22: every accepted request is answered: a request whose resolver has
\* been dispatched reaches its response. The response is sent only from the
\* state in which the resolver of its last root field has returned, and it
\* carries the result of every root field of the document; for bigRedButton
\* it carries the count deleteMany returned. A request gets one response:
\* once sent, the response stays as it is until it is collected.
C22_OneResponseAfterResolvers ==
  /\ \A r \in Reqs : (pc[r] = "started") ~> (pc[r] = "done")
  /\ [][\A r \in Reqs :
          /\ (pc'[r] = "done" /\ pc[r] # "done")
               => /\ pc[r] = "resolved"
                  /\ Len(part[r]) >= 1
                       => /\ Len(resp'[r].data) <= 1
                          /\ resp'[r].data # <<>>
                               => Len(resp'[r].data[1]) = Len(part[r]) + 1
                  /\ (op[r] = "bigRedButton" /\ part[r] = <<>>)
                       => /\ res[r].ok
                          /\ res[r].value.count = Cardinality(took[r])
                          /\ resp'[r].data = <<Destroyed(Cardinality(took[r]))>>
          /\ pc[r] = "done"
               => \/ pc'[r] = "done" /\ resp'[r] = resp[r] /\ op'[r] = op[r]
                  \/ pc'[r] = "idle" /\ resp'[r] = NoResp
          /\ resp'[r] # resp[r] => pc'[r] # pc[r] /\ "done" \in {pc[r], pc'[r]}]_vars

\* C22 witness: a document of createOneUser and bigRedButton has its
\* response, with the data of both root fields
C22_Witness ==
  /\ pc["r1"] = "done" /\ op["r1"] = "bigRedButton"
  /\ Len(part["r1"]) = 1 /\ part["r1"][1].field = "createOneUser"
  /\ resp["r1"].errors = <<>>
  /\ Len(resp["r1"].data[1]) = 2
  /\ resp["r1"].data[1][2] = <<Destroyed(2)>>

\* C25: every User in the store has an id and a name, neither of them
\* null. A createOneUser without a name is refused before its resolver runs
\* and a User it creates has the name it was given; an updateOneUser or
\* updateManyUser whose data is {set: null} for name or for id fails and
\* leaves the table as it was.
C25_NameAndIdNeverNull ==
  /\ [](\A k \in 1..Len(users) : ~IsNull(users[k].id) /\ ~IsNull(users[k].name))
  /\ [][\A r \in Reqs :
          /\ (op'[r] = "createOneUserNoName" /\ op[r] # op'[r])
               => users' = users /\ pc'[r] = "done" /\ resp'[r].errors # <<>>
          /\ (Called(r, "createOneUser") /\ res'[r].ok)
               => /\ res'[r].value.name = arg'[r].data[1].name
                  /\ ~IsNull(res'[r].value.name)
          /\ ( /\ Called(r, "updateOneUser") \/ Called(r, "updateManyUser")
               /\ \/ arg'[r].data[1].name = <<SetNull>>
                  \/ arg'[r].data[1].id = <<SetNull>> )
               => ~res'[r].ok /\ users' = users]_vars

\* C25 witness: an updateManyUser with name {set: null} was refused; the
\* User in the store has its name
C25_Witness ==
  /\ pc["r1"] = "resolved" /\ op["r1"] = "updateManyUser"
  /\ arg["r1"].data[1].name = <<SetNull>>
  /\ arg["r1"].where = <<Null>>
  /\ ~res["r1"].ok
  /\ Len(users) = 1 /\ users[1].name = sAlice

\* the step is one of the page: its query starts, or its response or a
\* network error arrives
Rendered == result' # result \/ view' # view

\* C24: the AllUsers component shows exactly one of three views.  While
\* the query is fetching it shows "Loading...", also when the result has an
\* error or data; when it is not fetching and the result has an error it
\* shows the error with its message; otherwise it shows the number of Users
\* of the data and one list item per User, keyed by id and showing the
\* name. The list is on the page only when the query is neither fetching
\* nor in error.
C24_OneOfThreeViews ==
  view.kind # "none" =>
    /\ view.kind \in {"loading", "error", "list"}
    /\ result.fetching => view.kind = "loading"
    /\ (~result.fetching /\ result.error # <<>>)
         => view.kind = "error" /\ view.message = result.error
    /\ (~result.fetching /\ result.error = <<>>) => view.kind = "list"
    /\ view.kind = "list"
         => /\ ~result.fetching /\ result.error = <<>>
            /\ result.data # <<>>
                 => /\ view.count = <<Len(result.data[1])>>
                    /\ Len(view.items) = Len(result.data[1])
                    /\ \A k \in 1..Len(view.items) :
                         /\ view.items[k].key = result.data[1][k].id
                         /\ view.items[k].text = result.data[1][k].name
    /\ view.kind # "list" => view.items = <<>> /\ view.count = <<>>

\* C24 witness: the query runs again after a network error: the result is
\* fetching and still has the error, and the page shows "Loading..."
C24_Witness ==
  /\ result.fetching /\ result.error = <<"NetworkError">>
  /\ view.kind = "loading"
  /\ pc["r1"] = "resolved"

\* C23 as stated: the page keeps no User of a response once the request
\* that fetched it is over, and when a bigRedButton has completed after the
\* page's last request, with no store call since, the page lists no User.
C23_PageHoldsNoCopy ==
  pc["r1"] = "idle" =>
    /\ result.data # <<>> => result.data[1] = <<>>
    /\ \A q \in Reqs :
         (pc[q] = "done" /\ op[q] = "bigRedButton" /\ quiet[q]
            /\ resp[q].errors = <<>>)
           => view.items = <<>>

\* C23 amended: the store alone holds the canonical Users: no step of the
\* page changes the table. The page keeps the data of the last response it
\* received and lists it until the next result arrives: its data changes
\* only when a response or a network error arrives, to the data of that
\* response (the table as the resolver of that request read it), and every
\* User it lists has an id some row of the store held.
C23_PageListsItsLastResponse ==
  /\ [](\A k \in 1..Len(view.items) : view.items[k].key \in everUsed)
  /\ [](view.kind = "list" => view.items = Items(result.data))
  /\ [][/\ Rendered => users' = users /\ cuidSeq' = cuidSeq
        /\ result'.data # result.data
             => /\ pc["r1"] = "done" /\ pc'["r1"] = "idle"
                /\ result'.data \in {resp["r1"].data, <<>>}
        /\ (pc["r1"] = "done" /\ pc'["r1"] = "idle" /\ result'.error = <<>>)
             => result'.data = resp["r1"].data /\ view'.kind = "list"
        /\ Answered("r1", "allUsers") => resp'["r1"].data = <<res["r1"].value>>
        /\ Called("r1", "allUsers") => res'["r1"] = [ok |-> TRUE, value |-> users]]_vars

\* C23 witness: the page lists the two Users of its last response; a
\* bigRedButton of another client has completed since and the store is
\* empty
C23_Witness ==
  /\ pc["r1"] = "idle" /\ view.kind = "list" /\ Len(view.items) = 2
  /\ pc["r2"] = "done" /\ op["r2"] = "bigRedButton" /\ quiet["r2"]
  /\ users = <<>>

====
